---- MODULE Spec2Model ----
(***************************************************************************)
(* Plane estimation by sequential RANSAC (SeqRANSAC/PlaneEstimation.cpp).  *)
(*                                                                         *)
(* Numbers.  The program computes in float.  The model computes exactly:   *)
(* points have integer coordinates, a threshold is a rational <<n, d>>     *)
(* (d > 0), and a plane (A,B,C,D) with a unit normal is kept as            *)
(*     [A, B, C, D : Int, Q : Nat, Dnan : BOOLEAN]                         *)
(* standing for the float quadruple (A,B,C,D)/sqrt(Q); Dnan says that the  *)
(* offset D is NaN (0.0/0 of an empty centroid).  A distance is kept as    *)
(* [m, q, nan], standing for m/sqrt(q).                                    *)
(*                                                                         *)
(* cv::eigen is modelled by what it returns: row 2 of evecs is a unit      *)
(* eigenvector of the smallest eigenvalue, that is a minimiser of the      *)
(* Rayleigh quotient d'Md/d'd.  The model minimises over the integer       *)
(* directions of a bounded box; ties (a rank-deficient scatter matrix) and *)
(* the sign are a nondeterministic choice among all minimisers.            *)
(***************************************************************************)
EXTENDS Integers, Sequences, FiniteSets, TLC

\* ---------------------------------------------------------------- bounds
MaxN == 4           \* largest cloud
MaxIter == 2        \* largest iterateNum
RAND_MAX == 5       \* largest value of rand() in the model
NormalRange == 1    \* |component| of the candidate normal directions
MaxCalls == 2       \* calls of findDifferences in one process (SpecSeq)
MaxRandPos == 3     \* the position in the rand() stream saturates here
GarbageRange == 1   \* |numerator| of the floats an uninitialized array may hold

\* ---------------------------------------------------------------- values
P(x, y, z) == [x |-> x, y |-> y, z |-> z]

Abs(v) == IF v < 0 THEN -v ELSE v

\* clouds: the prefixes of a list of corners of the unit cube, and a cloud of
\* three points on a line (two of them coincide), whose scatter matrix has rank 1
BaseCloud ==
  << P(0,0,0), P(1,0,0), P(0,1,0), P(0,0,1), P(1,1,0), P(1,1,1), P(1,0,1) >>

DegenerateCloud == << P(0,0,0), P(0,0,0), P(1,0,0) >>

Prefix(s, n) == SubSeq(s, 1, IF n < Len(s) THEN n ELSE Len(s))

Clouds == { Prefix(BaseCloud, n) : n \in 0..MaxN } \cup { DegenerateCloud }

Thresholds == { <<-1, 1>>, <<0, 1>>, <<1, 2>>, <<1, 1>> }

IterateNums == (-1)..MaxIter

NoPlane == [A |-> 0, B |-> 0, C |-> 0, D |-> 0, Q |-> 1, Dnan |-> FALSE]

\* what an uninitialized float bestPlane[4] may hold when it is read: any four
\* floats (whatever the stack was left with), here the quadruples of multiples
\* of 1 and of 1/4, and a quadruple with a NaN (every distance to it is NaN)
Garbage ==
  [A : (-GarbageRange)..GarbageRange, B : (-GarbageRange)..GarbageRange,
   C : (-GarbageRange)..GarbageRange, D : (-GarbageRange)..GarbageRange,
   Q : {1, 16}, Dnan : {FALSE}]
  \cup { [A |-> 0, B |-> 0, C |-> 0, D |-> 0, Q |-> 1, Dnan |-> TRUE] }

NoDiffs == [distances |-> << >>, isInliers |-> << >>, inliersNum |-> 0]

\* ------------------------------------------------- EstimatePlaneOptimal
Dirs ==
  { d \in [x : (-NormalRange)..NormalRange, y : (-NormalRange)..NormalRange,
           z : (-NormalRange)..NormalRange] :
      /\ d # P(0,0,0)
      /\ \A g \in 2..NormalRange :
            ~(d.x % g = 0 /\ d.y % g = 0 /\ d.z % g = 0) }

\* lines 30-37: the coordinate sums (the centroid is CentroidSum/num)
RECURSIVE CentroidSum(_, _)
CentroidSum(pts, idx) ==
  IF idx > Len(pts) THEN P(0,0,0)
  ELSE LET r == CentroidSum(pts, idx + 1)
       IN  P(pts[idx].x + r.x, pts[idx].y + r.y, pts[idx].z + r.z)

\* lines 44-53: row idx of X, times num
XRow(pts, idx, s) ==
  LET num == Len(pts)
  IN  P(num * pts[idx].x - s.x, num * pts[idx].y - s.y, num * pts[idx].z - s.z)

\* line 57: mtx = X.t() * X (times num^2), as d |-> d' mtx d
RECURSIVE Rayleigh(_, _, _, _)
Rayleigh(pts, s, d, idx) ==
  IF idx > Len(pts) THEN 0
  ELSE LET r == XRow(pts, idx, s)
           p == d.x * r.x + d.y * r.y + d.z * r.z
       IN  p * p + Rayleigh(pts, s, d, idx + 1)

Norm2(d) == d.x * d.x + d.y * d.y + d.z * d.z

\* lines 60-64: row 2 of evecs
SmallestEigenvectors(pts, s) ==
  LET zs == { d \in Dirs : Rayleigh(pts, s, d, 1) = 0 }
  IN  IF zs # {} THEN zs
      ELSE { d \in Dirs : \A e \in Dirs :
               Rayleigh(pts, s, d, 1) * Norm2(e) <= Rayleigh(pts, s, e, 1) * Norm2(d) }

\* lines 39-41, 66-73: the plane through the centroid s/num with normal d.  Of
\* an empty list the centroid is 0.0/0, so D is NaN while the normal is an
\* eigenvector of the zero matrix.
PlaneOffset_plus(d, s) == d.x * s.x + d.y * s.y + d.z * s.z

PlaneOffset(d, s) == -(d.x * s.x + d.y * s.y + d.z * s.z)

MakePlane(d, s, num) ==
  IF num = 0
  THEN [A |-> d.x, B |-> d.y, C |-> d.z, D |-> 0, Q |-> Norm2(d), Dnan |-> TRUE]
  ELSE [A |-> num * d.x, B |-> num * d.y, C |-> num * d.z, D |-> PlaneOffset(d, s),
        Q |-> num * num * Norm2(d), Dnan |-> FALSE]

\* the planes a call may return
EstimatePlaneOptimal(pts) ==
  LET s == CentroidSum(pts, 1)
  IN  { MakePlane(d, s, Len(pts)) : d \in SmallestEigenvectors(pts, s) }

\* ------------------------------------------ PlanePointRANSACDifferences
\* line 215: fabs(A*pt.x + B*pt.y + C*pt.z + D)
Diff(plane, pt) ==
  [m |-> Abs(plane.A * pt.x + plane.B * pt.y + plane.C * pt.z + plane.D),
   q |-> plane.Q, nan |-> plane.Dnan]

IsInlier_le(diff, threshold) ==
  /\ ~diff.nan
  /\ threshold[1] >= 0
  /\ diff.m * diff.m * threshold[2] * threshold[2]
       <= threshold[1] * threshold[1] * diff.q

\* line 217: diff < threshold
IsInlier(diff, threshold) ==
  /\ ~diff.nan
  /\ threshold[1] > 0
  /\ diff.m * diff.m * threshold[2] * threshold[2]
       < threshold[1] * threshold[1] * diff.q

\* lines 211-227
RECURSIVE DiffLoop(_, _, _, _, _)
DiffLoop(pts, plane, threshold, idx, ret) ==
  IF idx > Len(pts) THEN ret
  ELSE LET diff == Diff(plane, pts[idx])
           inl == IsInlier(diff, threshold)
       IN  DiffLoop(pts, plane, threshold, idx + 1,
             [distances |-> Append(ret.distances, diff),
              isInliers |-> Append(ret.isInliers, inl),
              inliersNum |-> ret.inliersNum + (IF inl THEN 1 ELSE 0)])

PlanePointRANSACDifferences(pts, plane, threshold) ==
  DiffLoop(pts, plane, threshold, 1, NoDiffs)

\* --------------------------------------------------- EstimatePlaneRANSAC
\* lines 108-123: (int)(((float)rand() / RAND_MAX) * num)
RandIndex(r, num) == (r * num) \div RAND_MAX

\* line 150
Better(inliersNum, best) == inliersNum > best

RECURSIVE CollectInliers_all(_, _, _)
CollectInliers_all(pts, isInliers, idx) ==
  IF idx > Len(pts) THEN << >>
  ELSE <<pts[idx]>> \o CollectInliers_all(pts, isInliers, idx + 1)

\* lines 166-174
RECURSIVE CollectInliers(_, _, _)
CollectInliers(pts, isInliers, idx) ==
  IF idx > Len(pts) THEN << >>
  ELSE (IF isInliers[idx] THEN <<pts[idx]>> ELSE << >>)
         \o CollectInliers(pts, isInliers, idx + 1)

VARIABLES
  pts, threshold, iterateNum,          \* the arguments of findDifferences
  pc,                                  \* the position in the call
  err,                                 \* how the call ended abnormally, if it did
  iter, index1, index2, index3,        \* the locals of EstimatePlaneRANSAC
  bestSampleInlierNum, bestPlane,
  bestWritten,                         \* has bestPlane[0..3] been assigned
  sampleResult, bestResult, inlierPts,
  planeParams,                         \* the plane EstimatePlaneRANSAC returned
  differences,                         \* the value findDifferences returns
  scores,                              \* history: the score of each finished trial
  planes,                              \* history: the candidate of each trial of the
                                       \* running loop (dropped when the loop is left)
  refitCalls,                          \* history: the arguments of the calls of
                                       \* EstimatePlaneOptimal made after the loop
  randPos,                             \* rand()'s process-wide state: values drawn so far
  callNo                               \* the number of this call in the process

vars == << pts, threshold, iterateNum, pc, err, iter, index1, index2, index3,
           bestSampleInlierNum, bestPlane, bestWritten, sampleResult, bestResult,
           inlierPts, planeParams, differences, scores, planes, refitCalls,
           randPos, callNo >>

inputs == << pts, threshold, iterateNum >>
sampling == << index1, index2, index3 >>
incumbent == << bestSampleInlierNum, bestPlane, bestWritten >>
outputs == << bestResult, inlierPts, planeParams, differences >>
history == << scores, planes >>

num == Len(pts)

Drawn(k) == IF randPos + k > MaxRandPos THEN MaxRandPos ELSE randPos + k

\* the locals at the entry of a call
Locals ==
  /\ pc = "entry"
  /\ err = "none"
  /\ iter = 0
  /\ index1 = 0 /\ index2 = 0 /\ index3 = 0
  /\ bestSampleInlierNum = 0
  /\ bestPlane = NoPlane
  /\ bestWritten = FALSE
  /\ sampleResult = NoDiffs
  /\ bestResult = NoDiffs
  /\ inlierPts = << >>
  /\ planeParams = NoPlane
  /\ differences = NoDiffs
  /\ scores = << >>
  /\ planes = << >>
  /\ refitCalls = << >>

Init ==
  /\ pts \in Clouds
  /\ threshold \in Thresholds
  /\ iterateNum \in IterateNums
  /\ Locals
  /\ randPos = 0
  /\ callNo = 1

\* lines 237-243 and 99-104: the fit of the whole cloud (printed, then deleted),
\* then the entry of EstimatePlaneRANSAC
Begin ==
  /\ pc = "entry"
  /\ \E plane \in EstimatePlaneOptimal(pts) : TRUE
  /\ pc' = "loop"
  /\ UNCHANGED << inputs, err, iter, sampling, incumbent, sampleResult, outputs,
                  history, refitCalls, randPos, callNo >>

\* lines 106-114, 120: three values of rand() and the three indices
StartTrial ==
  /\ pc = "loop"
  /\ iter < iterateNum
  /\ \E r1, r2, r3 \in 0..RAND_MAX :
       /\ index1' = RandIndex(r1, num)
       /\ index2' = RandIndex(r2, num)
       /\ index3' = RandIndex(r3, num)
  /\ randPos' = Drawn(3)
  /\ pc' = "sampling"
  /\ UNCHANGED << inputs, err, iter, incumbent, sampleResult, outputs, history,
                  refitCalls, callNo >>

\* lines 115-118
Resample2 ==
  /\ pc = "sampling"
  /\ index2 = index1
  /\ \E r \in 0..RAND_MAX : index2' = RandIndex(r, num)
  /\ randPos' = Drawn(1)
  /\ UNCHANGED << inputs, pc, err, iter, index1, index3, incumbent, sampleResult,
                  outputs, history, refitCalls, callNo >>

\* lines 121-124
Resample3 ==
  /\ pc = "sampling"
  /\ index2 # index1
  /\ (index3 = index1) \/ (index3 = index2)
  /\ \E r \in 0..RAND_MAX : index3' = RandIndex(r, num)
  /\ randPos' = Drawn(1)
  /\ UNCHANGED << inputs, pc, err, iter, index1, index2, incumbent, sampleResult,
                  outputs, history, refitCalls, callNo >>

Sampled ==
  /\ pc = "sampling"
  /\ index2 # index1
  /\ index3 # index1
  /\ index3 # index2

\* lines 126-128: pts.at(index) of an index that is not below num throws
\* std::out_of_range, which nothing catches
SampleOutOfRange ==
  /\ Sampled
  /\ (index1 >= num) \/ (index2 >= num) \/ (index3 >= num)
  /\ err' = "out_of_range"
  /\ pc' = "aborted"
  /\ UNCHANGED << inputs, iter, sampling, incumbent, sampleResult, outputs,
                  history, refitCalls, randPos, callNo >>

\* lines 126-161: the body of one trial
Trial ==
  /\ Sampled
  /\ index1 < num /\ index2 < num /\ index3 < num
  /\ LET minimalSample == << pts[index1 + 1], pts[index2 + 1], pts[index3 + 1] >>
     IN  /\ \E samplePlane \in EstimatePlaneOptimal(minimalSample) :
              LET res == PlanePointRANSACDifferences(pts, samplePlane, threshold)
              IN  /\ sampleResult' = res
                  /\ IF Better(res.inliersNum, bestSampleInlierNum)
                     THEN /\ bestSampleInlierNum' = res.inliersNum
                          /\ bestPlane' = samplePlane
                          /\ bestWritten' = TRUE
                     ELSE UNCHANGED incumbent
                  /\ scores' = Append(scores, res.inliersNum)
                  /\ planes' = Append(planes, samplePlane)
  /\ iter' = iter + 1
  /\ index1' = 0 /\ index2' = 0 /\ index3' = 0
  /\ pc' = "loop"
  /\ UNCHANGED << inputs, err, outputs, refitCalls, randPos, callNo >>

\* line 106: iter<iterateNum is false; the loop is left
LoopExit ==
  /\ pc = "loop"
  /\ iter >= iterateNum
  /\ sampleResult' = NoDiffs
  /\ planes' = << >>
  /\ pc' = "final"
  /\ UNCHANGED << inputs, err, iter, sampling, incumbent, outputs, scores,
                  refitCalls, randPos, callNo >>

\* lines 163-174: the classification against bestPlane and the inlier subset.
\* A bestPlane no trial has written is read uninitialized.
FinalClassify ==
  /\ pc = "final"
  /\ \E read \in (IF bestWritten THEN {bestPlane} ELSE Garbage) :
       LET res == PlanePointRANSACDifferences(pts, read, threshold)
       IN  /\ bestPlane' = read
           /\ bestResult' = res
           /\ inlierPts' = CollectInliers(pts, res.isInliers, 1)
  /\ pc' = "refit"
  /\ UNCHANGED << inputs, err, iter, sampling, bestSampleInlierNum, bestWritten,
                  sampleResult, planeParams, differences, history, refitCalls,
                  randPos, callNo >>

\* lines 176-178: the final fit and the return.  The values that came of an
\* uninitialized read are not kept past the return.
Refit ==
  /\ pc = "refit"
  /\ refitCalls' = Append(refitCalls, inlierPts)
  /\ planeParams' \in EstimatePlaneOptimal(inlierPts)
  /\ bestPlane' = (IF bestWritten THEN bestPlane ELSE NoPlane)
  /\ bestResult' = (IF bestWritten THEN bestResult ELSE NoDiffs)
  /\ pc' = "classify"
  /\ UNCHANGED << inputs, err, iter, sampling, bestSampleInlierNum, bestWritten,
                  sampleResult, inlierPts, differences, history, randPos, callNo >>

\* lines 249-259
Classify ==
  /\ pc = "classify"
  /\ differences' = PlanePointRANSACDifferences(pts, planeParams, threshold)
  /\ pc' = "done"
  /\ UNCHANGED << inputs, err, iter, sampling, incumbent, sampleResult, bestResult,
                  inlierPts, planeParams, history, refitCalls, randPos, callNo >>

Next ==
  \/ Begin
  \/ StartTrial
  \/ Resample2
  \/ Resample3
  \/ SampleOutOfRange
  \/ Trial
  \/ LoopExit
  \/ FinalClassify
  \/ Refit
  \/ Classify

Spec == Init /\ [][Next]_vars


\* ------------------------------------------------ a process of several calls
\* findDifferences returns and the process calls it again with the same
\* arguments; rand()'s state is the process's, so it is what the last call left
CallAgain ==
  /\ pc = "done"
  /\ callNo < MaxCalls
  /\ callNo' = callNo + 1
  /\ pc' = "entry"
  /\ iter' = 0
  /\ index1' = 0 /\ index2' = 0 /\ index3' = 0
  /\ bestSampleInlierNum' = 0
  /\ bestPlane' = NoPlane
  /\ bestWritten' = FALSE
  /\ sampleResult' = NoDiffs
  /\ bestResult' = NoDiffs
  /\ inlierPts' = << >>
  /\ planeParams' = NoPlane
  /\ differences' = NoDiffs
  /\ scores' = << >>
  /\ planes' = << >>
  /\ refitCalls' = << >>
  /\ UNCHANGED << inputs, err, randPos >>

InitSeq ==
  /\ pts = Prefix(BaseCloud, 3)
  /\ threshold = <<1, 2>>
  /\ iterateNum \in 0..1
  /\ Locals
  /\ randPos = 0
  /\ callNo = 1

NextSeq ==
  \/ Next
  \/ CallAgain

SpecSeq == InitSeq /\ [][NextSeq]_vars

\* ------------------------------------------------------------ the claims
\* the distance of pt to plane is below threshold, in exact arithmetic
Within(plane, pt, thr) ==
  LET v == plane.A * pt.x + plane.B * pt.y + plane.C * pt.z + plane.D
  IN  /\ ~plane.Dnan
      /\ thr[1] > 0
      /\ v * v * thr[2] * thr[2] < thr[1] * thr[1] * plane.Q

\* the distance of pt to plane is the threshold exactly
OnBoundary(plane, pt, thr) ==
  LET v == plane.A * pt.x + plane.B * pt.y + plane.C * pt.z + plane.D
  IN  /\ ~plane.Dnan
      /\ thr[1] > 0
      /\ v * v * thr[2] * thr[2] = thr[1] * thr[1] * plane.Q

\* the largest of 0 (the initial incumbent's score) and the scores in s
MaxScore(s) ==
  IF s = << >> THEN 0
  ELSE LET m == CHOOSE v \in { s[i] : i \in 1..Len(s) } :
                  \A i \in 1..Len(s) : s[i] <= v
       IN  IF m > 0 THEN m ELSE 0

\* the first trial whose score is v
FirstWith(s, v) == CHOOSE i \in 1..Len(s) : s[i] = v /\ \A j \in 1..(i - 1) : s[j] # v

\* the arguments the specification accepts
ValidCloud == num >= 3

ValidThreshold == threshold[1] > 0

ValidIterations == iterateNum >= 1

InLoop == pc \in {"loop", "sampling", "aborted"}

Returned == pc \in {"classify", "done"}

\* C1: in every trial on a cloud of n >= 3 points, the three indices the sample
\* is read with are pairwise distinct and each lies in [0, n), whatever rand()
\* returns (stated for a call whose other arguments are valid).
C1_SampleIndicesInRange ==
  (Sampled /\ ValidCloud /\ ValidThreshold) =>
     /\ index1 # index2 /\ index1 # index3 /\ index2 # index3
     /\ index1 \in 0..(num - 1)
     /\ index2 \in 0..(num - 1)
     /\ index3 \in 0..(num - 1)

\* C2: the incumbent is replaced only by a strictly greater score.  After any
\* number of trials (one or more, on a cloud of at least 3 points) the retained
\* score is the greatest score so far and the retained plane is the candidate
\* of the earliest trial that reached it; so a later trial with an equal or
\* lower score changes neither.
C2_FirstStrictMaxRetained ==
  (InLoop /\ ValidCloud /\ Len(scores) >= 1) =>
     /\ Len(planes) = Len(scores)
     /\ bestSampleInlierNum = MaxScore(scores)
     /\ bestWritten
     /\ bestPlane = planes[FirstWith(scores, MaxScore(scores))]

\* the i-th smallest element of a set of numbers
Nth(S, i) == CHOOSE v \in S : Cardinality({ w \in S : w <= v }) = i

\* C3: after the k trials EstimatePlaneRANSAC returns the result of exactly
\* one EstimatePlaneOptimal call, whose argument is exactly the points of the
\* cloud within the threshold of the best candidate, in cloud order.
C3_ReturnsRefitOfInliers ==
  LET ix == { i \in 1..num : Within(bestPlane, pts[i], threshold) }
      consensus == /\ Len(inlierPts) = Cardinality(ix)
                   /\ \A j \in 1..Len(inlierPts) : inlierPts[j] = pts[Nth(ix, j)]
  IN  /\ (pc = "refit") =>
            /\ Len(scores) = (IF iterateNum > 0 THEN iterateNum ELSE 0)
            /\ refitCalls = << >>
            /\ consensus
      /\ Returned =>
            /\ Len(scores) = (IF iterateNum > 0 THEN iterateNum ELSE 0)
            /\ Len(refitCalls) = 1
            /\ refitCalls[1] = inlierPts
            /\ bestWritten => consensus
            /\ planeParams \in EstimatePlaneOptimal(inlierPts)

\* the call returned a refit of the consensus set of a candidate, which leaves
\* out a point of the cloud
C3_Witness ==
  /\ pc = "done"
  /\ bestWritten
  /\ Len(scores) = iterateNum
  /\ Len(inlierPts) >= 3
  /\ Len(inlierPts) < num

\* result r is the classification of the cloud against plane
Aligned(r, plane) ==
  /\ Len(r.distances) = num
  /\ Len(r.isInliers) = num
  /\ \A i \in 1..num :
        /\ r.distances[i].nan = plane.Dnan
        /\ r.distances[i].q = plane.Q
        /\ r.distances[i].m >= 0
        /\ r.distances[i].m * r.distances[i].m =
             (plane.A * pts[i].x + plane.B * pts[i].y + plane.C * pts[i].z + plane.D)
               * (plane.A * pts[i].x + plane.B * pts[i].y + plane.C * pts[i].z + plane.D)
        /\ r.isInliers[i] <=> Within(plane, pts[i], threshold)
        /\ OnBoundary(plane, pts[i], threshold) => ~r.isInliers[i]
  /\ r.inliersNum = Cardinality({ i \in 1..num : r.isInliers[i] })

\* C4: PlanePointRANSACDifferences returns n distances and n flags aligned with
\* the cloud, flag i is true iff distance i is strictly below the threshold (a
\* distance equal to the threshold makes an outlier), and inliersNum is the
\* number of true flags.
C4_ClassificationAligned ==
  /\ (InLoop /\ Len(planes) > 0) => Aligned(sampleResult, planes[Len(planes)])
  /\ (pc = "refit" \/ (Returned /\ bestWritten)) => Aligned(bestResult, bestPlane)
  /\ (pc = "done") => Aligned(differences, planeParams)

\* the returned classification has an inlier and a point exactly at the
\* threshold, flagged as an outlier
C4_Witness ==
  /\ pc = "done"
  /\ differences.inliersNum > 0
  /\ \E i \in 1..num :
        /\ OnBoundary(planeParams, pts[i], threshold)
        /\ ~differences.isInliers[i]

\* C5: with fewer than 3 points both estimators fail with InsufficientPoints,
\* and EstimatePlaneRANSAC samples no index and fits no candidate before
\* (stated for a cloud of 1 or 2 points in a call whose other arguments are
\* valid).
C5_InsufficientPointsRejected ==
  (num \in 1..2 /\ ValidThreshold /\ ValidIterations) =>
     /\ pc \in {"entry", "failed"}
     /\ (pc = "failed") => (err = "InsufficientPoints")
     /\ randPos = 0
     /\ scores = << >>

\* C6: a consensus set of fewer than 3 points makes EstimatePlaneRANSAC fail
\* with DegenerateGeometry, without a call of EstimatePlaneOptimal on it
\* (stated for a cloud of at least 3 points and at least one trial).
C6_SmallConsensusRejected ==
  (ValidCloud /\ ValidIterations) =>
     /\ \A i \in 1..Len(refitCalls) : Len(refitCalls[i]) >= 3
     /\ Returned => (Len(inlierPts) >= 3)

\* C7: with iterateNum <= 0 EstimatePlaneRANSAC fails with InvalidParameter: it
\* never classifies against, refits from or returns anything derived from a
\* best candidate no trial has recorded (stated for a call whose other
\* arguments are valid).
C7_NonPositiveIterationsRejected ==
  (iterateNum <= 0 /\ ValidCloud /\ ValidThreshold) =>
     /\ bestResult = NoDiffs
     /\ refitCalls = << >>
     /\ pc # "refit"
     /\ ~Returned

\* C8: for every cloud, threshold and k > 0 the loop runs exactly k trials and
\* then reaches the final refit: no early exit, no trial skipped (stated for
\* a cloud of at least 3 points and a positive threshold).
C8_ExactlyKTrials ==
  (iterateNum > 0 /\ ValidCloud /\ ValidThreshold
     /\ pc \notin {"entry", "loop", "sampling"}) =>
     /\ (pc \in {"final", "refit"}) \/ Returned
     /\ Len(scores) = iterateNum

\* C9: the random generator is the caller's, not the process's: no state that
\* one call wrote is read by a later call, so every call starts to draw from
\* the state its seed sets.
C9_NoRandomStateCarriedOver ==
  (pc = "entry") => (randPos = 0)

\* C10: with n >= 3, threshold > 0 and k >= 1 the first trial scores at least 3
\* and overwrites the initial incumbent, so that at the final classification
\* bestPlane is written, bestSampleInlierNum >= 3 is the greatest score of all
\* trials, and the final refit receives at least 3 points; with threshold <= 0
\* every trial scores 0 and bestPlane is never written.
C10_FirstTrialOverwrites ==
  /\ (ValidCloud /\ ValidThreshold /\ Len(scores) >= 1) =>
        /\ scores[1] >= 3
        /\ bestWritten
        /\ bestSampleInlierNum >= 3
        /\ bestSampleInlierNum = MaxScore(scores)
  /\ (ValidCloud /\ ValidThreshold /\ ValidIterations /\ Returned) =>
        /\ Len(scores) = iterateNum
        /\ bestResult.inliersNum = bestSampleInlierNum
        /\ Len(inlierPts) >= 3
        /\ \A i \in 1..Len(refitCalls) : Len(refitCalls[i]) >= 3
  /\ (threshold[1] <= 0) =>
        /\ \A i \in 1..Len(scores) : scores[i] = 0
        /\ ~bestWritten
        /\ bestSampleInlierNum = 0

\* two trials ran on a cloud of more than 3 points, the second improved on the
\* first, and the refit received the larger consensus set
C10_Witness ==
  /\ pc = "done"
  /\ threshold[1] > 0
  /\ Len(scores) = 2
  /\ scores[1] = 3
  /\ scores[2] > 3
  /\ Len(inlierPts) = scores[2]

====
